---- MODULE Spec2Model ----
(***************************************************************************)
(* ConGPT backend: the in-memory conversation forest (conversationState),  *)
(* the store functions createNode, getNodePath, getRootId, pruneToRoot and *)
(* deleteSubtree, and the request handlers GET /threads, POST /messages    *)
(* and DELETE /messages/:id that drive them.                               *)
(***************************************************************************)
EXTENDS Integers, Sequences, FiniteSets, TLC

\* ------------------------------------------------------------------ bounds
\* ids handed out by crypto.randomUUID() are modelled as 1, 2, 3, ...
MaxId == 6
\* ids available when the store functions are driven directly
MaxStoreId == 4
\* ids handed out while requests may overlap
MaxRaceId == 5
\* number of POST /messages requests that may be suspended at the provider
MaxPending == 2

\* ------------------------------------------------------------ value domains
Null == 0
Ids == 1..MaxId
Roles == {"user", "assistant"}
\* request bodies: usable message texts, a missing/empty content, a content
\* that is not a string
Contents == {"q1", "q2"}
NoContent == ""
NotAString == "<42>"
ReqContents == Contents \cup {NoContent, NotAString}
\* provider outcomes: a text, a completion without usable text, an exception
ReplyTexts == {"r1"}
NoText == ""
Throws == "<throws>"
Outcomes == ReplyTexts \cup {NoText, Throws}
\* the role/content pairs the store is driven with directly
StoreInputs == {[role |-> "user", content |-> "q1"],
                [role |-> "assistant", content |-> "r1"]}
SystemPrompt == "You are a helpful assistant inside a threaded conversation. Respond to the latest user message. Only use the conversation path provided; do not assume context from sibling branches."
FallbackText == "I'm sorry, I was unable to generate a response."

typeOf(v) == IF v = NotAString THEN "number" ELSE "string"
\* JavaScript truthiness of an id (null is falsy) and of a text ("" is falsy)
truthy(v) == v # Null
\* "??" in place of "||": the empty text counts as a value
truthyText_nullish(v) == TRUE
truthyText(v) == v # NoContent

VARIABLES
  conversationState,  \* [nodes: id -> node, rootIds: sequence of ids]
  nextId,             \* the next id crypto.randomUUID() returns
  pending,            \* POST /messages requests suspended at the provider
  last,               \* the step that was taken last, with the forest before it
  prunedNonRoot,      \* pruneToRoot was called directly on a node with a parent
  orphaned            \* user nodes of the POST /messages requests answered 500

vars == <<conversationState, nextId, pending, last, prunedNonRoot, orphaned>>

EmptyState == [nodes |-> <<>>, rootIds |-> <<>>]

Reverse(s) == [i \in 1..Len(s) |-> s[Len(s) + 1 - i]]
Range(s) == {s[i] : i \in 1..Len(s)}
Restrict(f, S) == [x \in S |-> f[x]]

\* ------------------------------------------------------------------- store
\* a createNode that lists every new node as a root
createNode_alwaysRoot(st, id, role, content, parentId) ==
  LET hasParent == truthy(parentId) /\ parentId \in DOMAIN st.nodes
      node == [id |-> id, role |-> role, content |-> content,
               parentId |-> parentId, children |-> <<>>, createdAt |-> id,
               rootId |-> IF hasParent THEN st.nodes[parentId].rootId ELSE id]
      withNode == [i \in DOMAIN st.nodes \cup {id} |->
                     IF i = id THEN node ELSE st.nodes[i]]
  IN [nodes |-> IF hasParent
                THEN [withNode EXCEPT ![parentId].children = Append(@, id)]
                ELSE withNode,
      rootIds |-> Append(st.rootIds, id)]

\* a createNode that never lists the new node in rootIds
createNode_unlisted(st, id, role, content, parentId) ==
  LET hasParent == truthy(parentId) /\ parentId \in DOMAIN st.nodes
      node == [id |-> id, role |-> role, content |-> content,
               parentId |-> parentId, children |-> <<>>, createdAt |-> id,
               rootId |-> IF hasParent THEN st.nodes[parentId].rootId ELSE id]
      withNode == [i \in DOMAIN st.nodes \cup {id} |->
                     IF i = id THEN node ELSE st.nodes[i]]
  IN [nodes |-> IF hasParent
                THEN [withNode EXCEPT ![parentId].children = Append(@, id)]
                ELSE withNode,
      rootIds |-> st.rootIds]

\* a createNode that caches the parent's id as rootId
createNode_parentAsRoot(st, id, role, content, parentId) ==
  LET hasParent == truthy(parentId) /\ parentId \in DOMAIN st.nodes
      node == [id |-> id, role |-> role, content |-> content,
               parentId |-> parentId, children |-> <<>>, createdAt |-> id,
               rootId |-> IF hasParent THEN st.nodes[parentId].id ELSE id]
      withNode == [i \in DOMAIN st.nodes \cup {id} |->
                     IF i = id THEN node ELSE st.nodes[i]]
  IN IF truthy(parentId)
     THEN [nodes |-> IF hasParent
                     THEN [withNode EXCEPT ![parentId].children = Append(@, id)]
                     ELSE withNode,
           rootIds |-> st.rootIds]
     ELSE [nodes |-> withNode, rootIds |-> Append(st.rootIds, id)]

\* a createNode that puts the new id in front of the parent's children
createNode_unshift(st, id, role, content, parentId) ==
  LET hasParent == truthy(parentId) /\ parentId \in DOMAIN st.nodes
      node == [id |-> id, role |-> role, content |-> content,
               parentId |-> parentId, children |-> <<>>, createdAt |-> id,
               rootId |-> IF hasParent THEN st.nodes[parentId].rootId ELSE id]
      withNode == [i \in DOMAIN st.nodes \cup {id} |->
                     IF i = id THEN node ELSE st.nodes[i]]
  IN IF truthy(parentId)
     THEN [nodes |-> IF hasParent
                     THEN [withNode EXCEPT ![parentId].children = <<id>> \o @]
                     ELSE withNode,
           rootIds |-> st.rootIds]
     ELSE [nodes |-> withNode, rootIds |-> Append(st.rootIds, id)]

\* createNode({role, content, parentId}) with the id randomUUID() returned;
\* createdAt is the creation tick
createNode(st, id, role, content, parentId) ==
  LET hasParent == truthy(parentId) /\ parentId \in DOMAIN st.nodes
      rootId == IF hasParent
                THEN (IF st.nodes[parentId].rootId # Null
                      THEN st.nodes[parentId].rootId
                      ELSE st.nodes[parentId].id)
                ELSE id
      node == [id |-> id, role |-> role, content |-> content,
               parentId |-> parentId, children |-> <<>>,
               createdAt |-> id, rootId |-> rootId]
      withNode == [i \in DOMAIN st.nodes \cup {id} |->
                     IF i = id THEN node ELSE st.nodes[i]]
  IN IF truthy(parentId)
     THEN [nodes |-> IF hasParent
                     THEN [withNode EXCEPT ![parentId].children = Append(@, id)]
                     ELSE withNode,
           rootIds |-> st.rootIds]
     ELSE [nodes |-> withNode, rootIds |-> Append(st.rootIds, id)]

RECURSIVE pathWalk(_, _, _)
pathWalk(nodes, currentId, path) ==
  IF ~truthy(currentId) \/ currentId \notin DOMAIN nodes
  THEN path
  ELSE pathWalk(nodes, nodes[currentId].parentId, Append(path, nodes[currentId]))

\* a getNodePath that forgets path.reverse()
getNodePath_unreversed(st, nodeId) == pathWalk(st.nodes, nodeId, <<>>)

\* getNodePath(nodeId): the nodes from the top of the parentId chain to nodeId
getNodePath(st, nodeId) == Reverse(pathWalk(st.nodes, nodeId, <<>>))

\* a getRootId that ignores the cached rootId
getRootId_self(st, nodeId) == nodeId

getRootId(st, nodeId) ==
  IF nodeId \notin DOMAIN st.nodes
  THEN nodeId
  ELSE IF st.nodes[nodeId].rootId # Null THEN st.nodes[nodeId].rootId
       ELSE st.nodes[nodeId].id

RECURSIVE pruneWalk(_, _, _)
\* the breadth-first loop of pruneToRoot: queue.shift(), retainedIds.add()
pruneWalk(nodes, queue, retainedIds) ==
  IF queue = <<>>
  THEN retainedIds
  ELSE LET currentId == Head(queue)
           rest == Tail(queue)
       IN IF currentId \in retainedIds \/ currentId \notin DOMAIN nodes
          THEN pruneWalk(nodes, rest, retainedIds)
          ELSE LET retained2 == retainedIds \cup {currentId}
                   more == SelectSeq(nodes[currentId].children,
                                     LAMBDA c : c \notin retained2)
               IN pruneWalk(nodes, rest \o more, retained2)

\* a pruneToRoot that leaves the children lists as they were
pruneToRoot_unfiltered(st, rootId) ==
  IF rootId \notin DOMAIN st.nodes
  THEN st
  ELSE [nodes |-> Restrict(st.nodes, pruneWalk(st.nodes, <<rootId>>, {})),
        rootIds |-> <<rootId>>]

\* a pruneToRoot that does not reset the root-id sequence
pruneToRoot_keepRoots(st, rootId) ==
  IF rootId \notin DOMAIN st.nodes
  THEN st
  ELSE LET retainedIds == pruneWalk(st.nodes, <<rootId>>, {})
       IN [nodes |-> [id \in retainedIds |->
                        [st.nodes[id] EXCEPT !.children =
                           SelectSeq(@, LAMBDA c : c \in retainedIds)]],
           rootIds |-> st.rootIds]

\* a pruneToRoot that retains the root and its direct children only
pruneToRoot_shallow(st, rootId) ==
  IF rootId \notin DOMAIN st.nodes
  THEN st
  ELSE LET retainedIds == ({rootId} \cup Range(st.nodes[rootId].children))
                            \cap DOMAIN st.nodes
       IN [nodes |-> [id \in retainedIds |->
                        [st.nodes[id] EXCEPT !.children =
                           SelectSeq(@, LAMBDA c : c \in retainedIds)]],
           rootIds |-> <<rootId>>]

\* a pruneToRoot that pushes the root id instead of replacing the sequence
pruneToRoot_pushRoot(st, rootId) ==
  IF rootId \notin DOMAIN st.nodes
  THEN st
  ELSE LET retainedIds == pruneWalk(st.nodes, <<rootId>>, {})
       IN [nodes |-> [id \in retainedIds |->
                        [st.nodes[id] EXCEPT !.children =
                           SelectSeq(@, LAMBDA c : c \in retainedIds)]],
           rootIds |-> Append(st.rootIds, rootId)]

\* a pruneToRoot without the early return for a missing root
pruneToRoot_noGuard(st, rootId) ==
  LET retainedIds == pruneWalk(st.nodes, <<rootId>>, {})
  IN [nodes |-> [id \in retainedIds |->
                   [st.nodes[id] EXCEPT !.children =
                      SelectSeq(@, LAMBDA c : c \in retainedIds)]],
      rootIds |-> <<rootId>>]

pruneToRoot(st, rootId) ==
  IF rootId \notin DOMAIN st.nodes
  THEN st
  ELSE LET retainedIds == pruneWalk(st.nodes, <<rootId>>, {})
           nextNodes == [id \in retainedIds |->
                           [st.nodes[id] EXCEPT !.children =
                              SelectSeq(@, LAMBDA c : c \in retainedIds)]]
       IN [nodes |-> nextNodes, rootIds |-> <<rootId>>]

RECURSIVE deleteWalk(_, _)
\* the loop of deleteSubtree: toDelete.pop(), push the children, delete
deleteWalk(nodes, toDelete) ==
  IF toDelete = <<>>
  THEN nodes
  ELSE LET currentId == toDelete[Len(toDelete)]
           rest == SubSeq(toDelete, 1, Len(toDelete) - 1)
       IN IF currentId \notin DOMAIN nodes
          THEN deleteWalk(nodes, rest)
          ELSE deleteWalk(Restrict(nodes, DOMAIN nodes \ {currentId}),
                          rest \o nodes[currentId].children)

\* a deleteSubtree that removes the node and leaves its descendants
deleteSubtree_shallow(st, nodeId) ==
  [nodes |-> Restrict(st.nodes, DOMAIN st.nodes \ {nodeId}), rootIds |-> st.rootIds]

\* a deleteSubtree that also unlinks the node from its parent
deleteSubtree_detach(st, nodeId) ==
  LET left == deleteWalk(st.nodes, <<nodeId>>)
  IN [nodes |-> [m \in DOMAIN left |->
                   [left[m] EXCEPT !.children = SelectSeq(@, LAMBDA c : c # nodeId)]],
      rootIds |-> st.rootIds]

deleteSubtree(st, nodeId) ==
  [nodes |-> deleteWalk(st.nodes, <<nodeId>>), rootIds |-> st.rootIds]

serializeState(st) == [rootIds |-> st.rootIds, nodes |-> st.nodes]

\* ----------------------------------------------------------------- history
Step(op, arg, node, reply, status, outcome, before) ==
  [op |-> op, arg |-> arg, node |-> node, reply |-> reply, status |-> status,
   outcome |-> outcome, pre |-> conversationState, before |-> before]

Issued == 1..(nextId - 1)

Init ==
  /\ conversationState = EmptyState
  /\ nextId = 1
  /\ pending = {}
  /\ last = [op |-> "init", arg |-> Null, node |-> Null, reply |-> Null,
             status |-> 0, outcome |-> NoText, pre |-> EmptyState,
             before |-> EmptyState]
  /\ prunedNonRoot = FALSE
  /\ orphaned = {}

\* ------------------------------------------------- direct store operations
CreateNode(role, content, parentId) ==
  /\ nextId <= MaxStoreId
  /\ conversationState' = createNode(conversationState, nextId, role, content, parentId)
  /\ nextId' = nextId + 1
  /\ last' = Step("createNode", parentId, nextId, Null, 0, NoText, conversationState)
  /\ UNCHANGED <<pending, prunedNonRoot, orphaned>>

DeleteSubtree(nodeId) ==
  /\ conversationState' = deleteSubtree(conversationState, nodeId)
  /\ last' = Step("deleteSubtree", nodeId, Null, Null, 0, NoText, conversationState)
  /\ UNCHANGED <<nextId, pending, prunedNonRoot, orphaned>>

PruneToRoot(rootId) ==
  /\ conversationState' = pruneToRoot(conversationState, rootId)
  /\ last' = Step("pruneToRoot", rootId, Null, Null, 0, NoText, conversationState)
  /\ prunedNonRoot' = (\/ prunedNonRoot
                       \/ /\ rootId \in DOMAIN conversationState.nodes
                          /\ conversationState.nodes[rootId].parentId # Null)
  /\ UNCHANGED <<nextId, pending, orphaned>>

\* the store driven with any id that was ever handed out, present or not
StoreNext ==
  \/ \E in \in StoreInputs, parentId \in Issued \cup {Null} :
       CreateNode(in.role, in.content, parentId)
  \/ \E nodeId \in Issued : DeleteSubtree(nodeId)
  \/ \E rootId \in Issued : PruneToRoot(rootId)

SpecStore == Init /\ [][StoreNext]_vars

\* the store driven with the ids of nodes that are in the mapping
StoreExistingNext ==
  \/ \E in \in StoreInputs, parentId \in DOMAIN conversationState.nodes \cup {Null} :
       CreateNode(in.role, in.content, parentId)
  \/ \E nodeId \in DOMAIN conversationState.nodes : DeleteSubtree(nodeId)
  \/ \E rootId \in DOMAIN conversationState.nodes : PruneToRoot(rootId)

SpecStoreExisting == Init /\ [][StoreExistingNext]_vars

\* ---------------------------------------------------------- request handlers
toMessages(contextPath) ==
  <<[role |-> "system", content |-> SystemPrompt]>> \o
  [i \in 1..Len(contextPath) |->
     [role |-> contextPath[i].role, content |-> contextPath[i].content]]

\* app.get("/threads")
GetThreads ==
  /\ last' = Step("get", Null, Null, Null, 200, NoText, conversationState)
  /\ UNCHANGED <<conversationState, nextId, pending, prunedNonRoot, orphaned>>

\* a handler without the "User messages must reply to an assistant message."
\* check
PostMessage_noRoleCheck(idLimit, content, parentId) ==
  /\ UNCHANGED <<prunedNonRoot, orphaned>>
  /\ IF ~truthyText(content) \/ typeOf(content) # "string"
     THEN /\ last' = Step("post", parentId, Null, Null, 400, NoText, conversationState)
          /\ UNCHANGED <<conversationState, nextId, pending>>
     ELSE IF truthy(parentId) /\ parentId \notin DOMAIN conversationState.nodes
     THEN /\ last' = Step("post", parentId, Null, Null, 404, NoText, conversationState)
          /\ UNCHANGED <<conversationState, nextId, pending>>
     ELSE /\ Cardinality(pending) < MaxPending
          /\ nextId + 2 * Cardinality(pending) + 1 <= idLimit
          /\ LET withUser == createNode(conversationState, nextId, "user", content, parentId)
                 contextPath == getNodePath(withUser, nextId)
             IN /\ conversationState' = withUser
                /\ pending' = pending \cup
                     {[user |-> nextId, messages |-> toMessages(contextPath),
                       before |-> conversationState]}
          /\ nextId' = nextId + 1
          /\ last' = Step("await", parentId, nextId, Null, 0, NoText, conversationState)

\* app.post("/messages") up to the await of the provider call; idLimit caps
\* the ids handed out so that every accepted request can still get its reply
PostMessage(idLimit, content, parentId) ==
  /\ UNCHANGED <<prunedNonRoot, orphaned>>
  /\ IF ~truthyText(content) \/ typeOf(content) # "string"
     THEN /\ last' = Step("post", parentId, Null, Null, 400, NoText, conversationState)
          /\ UNCHANGED <<conversationState, nextId, pending>>
     ELSE IF truthy(parentId) /\ parentId \notin DOMAIN conversationState.nodes
     THEN /\ last' = Step("post", parentId, Null, Null, 404, NoText, conversationState)
          /\ UNCHANGED <<conversationState, nextId, pending>>
     ELSE IF truthy(parentId) /\ conversationState.nodes[parentId].role # "assistant"
     THEN /\ last' = Step("post", parentId, Null, Null, 400, NoText, conversationState)
          /\ UNCHANGED <<conversationState, nextId, pending>>
     ELSE /\ Cardinality(pending) < MaxPending
          /\ nextId + 2 * Cardinality(pending) + 1 <= idLimit
          /\ LET withUser == createNode(conversationState, nextId, "user", content, parentId)
                 contextPath == getNodePath(withUser, nextId)
             IN /\ conversationState' = withUser
                /\ pending' = pending \cup
                     {[user |-> nextId, messages |-> toMessages(contextPath),
                       before |-> conversationState]}
          /\ nextId' = nextId + 1
          /\ last' = Step("await", parentId, nextId, Null, 0, NoText, conversationState)

\* a handler whose catch block takes the user node back out
PostResume_rollback(p, outcome) ==
  /\ p \in pending
  /\ UNCHANGED prunedNonRoot
  /\ orphaned' = IF outcome = Throws THEN orphaned \cup {p.user} ELSE orphaned
  /\ pending' = pending \ {p}
  /\ IF outcome = Throws
     THEN /\ last' = Step("post", Null, p.user, Null, 500, outcome, p.before)
          /\ conversationState' = deleteSubtree(conversationState, p.user)
          /\ UNCHANGED nextId
     ELSE LET assistantContent == IF truthyText(outcome) THEN outcome ELSE FallbackText
              withReply == createNode(conversationState, nextId, "assistant",
                                      assistantContent, p.user)
              activeRootId == getRootId(withReply, p.user)
          IN /\ conversationState' = pruneToRoot(withReply, activeRootId)
             /\ nextId' = nextId + 1
             /\ last' = Step("post", Null, p.user, nextId, 200, outcome, p.before)

\* app.post("/messages") from the return of the provider call to the response
PostResume(p, outcome) ==
  /\ p \in pending
  /\ UNCHANGED prunedNonRoot
  /\ orphaned' = IF outcome = Throws THEN orphaned \cup {p.user} ELSE orphaned
  /\ pending' = pending \ {p}
  /\ IF outcome = Throws
     THEN /\ last' = Step("post", Null, p.user, Null, 500, outcome, p.before)
          /\ UNCHANGED <<conversationState, nextId>>
     ELSE LET assistantContent == IF truthyText(outcome) THEN outcome ELSE FallbackText
              withReply == createNode(conversationState, nextId, "assistant",
                                      assistantContent, p.user)
              activeRootId == getRootId(withReply, p.user)
          IN /\ conversationState' = pruneToRoot(withReply, activeRootId)
             /\ nextId' = nextId + 1
             /\ last' = Step("post", Null, p.user, nextId, 200, outcome, p.before)

\* a handler without the "Root messages cannot be deleted." check
DeleteMessage_noRootCheck(id) ==
  /\ UNCHANGED <<prunedNonRoot, orphaned>>
  /\ IF id \notin DOMAIN conversationState.nodes
     THEN /\ last' = Step("delete", id, Null, Null, 404, NoText, conversationState)
          /\ UNCHANGED <<conversationState, nextId, pending>>
     ELSE LET targetNode == conversationState.nodes[id]
              detached ==
                IF targetNode.parentId \in DOMAIN conversationState.nodes
                THEN [conversationState EXCEPT !.nodes[targetNode.parentId].children =
                        SelectSeq(@, LAMBDA childId : childId # id)]
                ELSE conversationState
              rootId == IF targetNode.rootId # Null THEN targetNode.rootId
                        ELSE getRootId(detached, targetNode.parentId)
          IN /\ conversationState' = pruneToRoot(deleteSubtree(detached, id), rootId)
             /\ last' = Step("delete", id, Null, Null, 200, NoText, conversationState)
             /\ UNCHANGED <<nextId, pending>>

\* app.delete("/messages/:id")
DeleteMessage(id) ==
  /\ UNCHANGED <<prunedNonRoot, orphaned>>
  /\ IF id \notin DOMAIN conversationState.nodes
     THEN /\ last' = Step("delete", id, Null, Null, 404, NoText, conversationState)
          /\ UNCHANGED <<conversationState, nextId, pending>>
     ELSE IF ~truthy(conversationState.nodes[id].parentId)
     THEN /\ last' = Step("delete", id, Null, Null, 400, NoText, conversationState)
          /\ UNCHANGED <<conversationState, nextId, pending>>
     ELSE LET targetNode == conversationState.nodes[id]
              detached ==
                IF targetNode.parentId \in DOMAIN conversationState.nodes
                THEN [conversationState EXCEPT !.nodes[targetNode.parentId].children =
                        SelectSeq(@, LAMBDA childId : childId # id)]
                ELSE conversationState
              rootId == IF targetNode.rootId # Null THEN targetNode.rootId
                        ELSE getRootId(detached, targetNode.parentId)
          IN /\ conversationState' = pruneToRoot(deleteSubtree(detached, id), rootId)
             /\ last' = Step("delete", id, Null, Null, 200, NoText, conversationState)
             /\ UNCHANGED <<nextId, pending>>

\* requests arrive at any time; a POST yields only at the provider call
Next ==
  \/ GetThreads
  \/ \E content \in ReqContents, parentId \in Ids \cup {Null} :
       PostMessage(MaxRaceId, content, parentId)
  \/ \E p \in pending, outcome \in Outcomes : PostResume(p, outcome)
  \/ \E id \in Ids : DeleteMessage(id)

Spec == Init /\ [][Next]_vars

\* one request is handled fully before the next one begins
SeqNext ==
  \/ pending = {} /\ GetThreads
  \/ pending = {} /\ \E content \in ReqContents, parentId \in Ids \cup {Null} :
                       PostMessage(MaxId, content, parentId)
  \/ \E p \in pending, outcome \in Outcomes : PostResume(p, outcome)
  \/ pending = {} /\ \E id \in Ids : DeleteMessage(id)

SpecSeq == Init /\ [][SeqNext]_vars

\* ----------------------------------------------- every operation together
\* the store functions called directly and the two mutating requests, in any
\* order, with the ids of nodes that are in the mapping; each one runs to
\* completion before the next one starts
AllNext ==
  \/ pending = {} /\ StoreExistingNext
  \/ pending = {} /\ \E parentId \in DOMAIN conversationState.nodes \cup {Null} :
                       PostMessage(MaxStoreId, "q1", parentId)
  \/ \E p \in pending, outcome \in Outcomes : PostResume(p, outcome)
  \/ pending = {} /\ \E id \in DOMAIN conversationState.nodes : DeleteMessage(id)

SpecAll == Init /\ [][AllNext]_vars

\* ------------------------------------------------- vocabulary of the claims
nodes == conversationState.nodes
rootIds == conversationState.rootIds

RECURSIVE Closure(_, _)
Closure(ns, S) ==
  LET T == S \cup {c \in DOMAIN ns : \E n \in S : c \in Range(ns[n].children)}
  IN IF T = S THEN S ELSE Closure(ns, T)

\* the nodes reachable from r by following children links, r included
Reachable(ns, r) == IF r \in DOMAIN ns THEN Closure(ns, {r}) ELSE {}

RECURSIVE ChainTo(_, _)
\* the ids on the parentId chain of n, topmost first, n last
ChainTo(ns, n) ==
  IF ns[n].parentId = Null \/ ns[n].parentId \notin DOMAIN ns
  THEN <<n>>
  ELSE Append(ChainTo(ns, ns[n].parentId), n)

TopOf(ns, n) == ChainTo(ns, n)[1]
AncestorsOf(ns, n) == Range(ChainTo(ns, n)) \ {n}
\* n and every node that has n on its parentId chain
SubtreeOf(ns, n) == {m \in DOMAIN ns : n \in Range(ChainTo(ns, m))}

NoDanglingChild(ns) ==
  \A n \in DOMAIN ns : Range(ns[n].children) \subseteq DOMAIN ns

\* ---------------------------------------------------------------- claims
\* C1: after pruneToRoot(r) on an id r that names a node, the mapping holds
\* exactly the nodes that were reachable from r through children links, the
\* root-id sequence is <<r>>, and no children list names an absent id.
C1_PruneExact ==
  (last.op = "pruneToRoot" /\ last.arg \in DOMAIN last.pre.nodes) =>
    /\ DOMAIN nodes = Reachable(last.pre.nodes, last.arg)
    /\ rootIds = <<last.arg>>
    /\ NoDanglingChild(nodes)

\* a prune that kept a child, dropped another tree and cleaned a dangling id
C1_Witness ==
  /\ last.op = "pruneToRoot"
  /\ last.arg \in DOMAIN last.pre.nodes
  /\ Cardinality(DOMAIN nodes) >= 2
  /\ DOMAIN last.pre.nodes \ DOMAIN nodes # {}
  /\ ~NoDanglingChild(last.pre.nodes)
  /\ \E n \in DOMAIN nodes : nodes[n].children # last.pre.nodes[n].children

\* a POST /messages that was answered 200: its user node is last.node, its
\* assistant node last.reply, the forest before the request last.before
Posted == last.op = "post" /\ last.status = 200

\* C2: after a post that passed validation and whose provider call returned,
\* the forest has one root, the top of the new user node's chain; it holds
\* exactly the nodes reachable from it, among them the user node and its
\* assistant reply; the nodes of every other tree are gone.
C2_PostLeavesOneTree ==
  Posted =>
    /\ last.node \in DOMAIN nodes
    /\ last.reply \in DOMAIN nodes
    /\ nodes[last.reply].role = "assistant"
    /\ nodes[last.reply].parentId = last.node
    /\ LET r == TopOf(nodes, last.node)
       IN /\ nodes[r].parentId = Null
          /\ rootIds = <<r>>
          /\ DOMAIN nodes = Reachable(nodes, r)
          /\ {last.node, last.reply} \subseteq Reachable(nodes, r)
          /\ \A n \in DOMAIN last.before.nodes :
               TopOf(last.before.nodes, n) # r => n \notin DOMAIN nodes

\* a reply posted below an assistant node while another tree was in memory
C2_Witness ==
  /\ Posted
  /\ nodes[last.node].parentId # Null
  /\ \E n \in DOMAIN last.before.nodes :
       TopOf(last.before.nodes, n) # TopOf(nodes, last.node)

\* C3: after a reply is posted, the mapping holds only the new message's
\* ancestors (its root included) and its descendants; sibling branches under
\* the same root are gone.
C3_OnlyCurrentBranch ==
  Posted =>
    DOMAIN nodes = AncestorsOf(nodes, last.node) \cup SubtreeOf(nodes, last.node)

\* C4: the message list handed to the provider is the system instruction
\* followed by the role and content of the nodes on the parentId chain from
\* the root down to the new user node, in that order, and nothing else.
C4_ContextIsAncestorChain ==
  \A p \in pending :
    LET chain == ChainTo(nodes, p.user)
    IN /\ nodes[chain[1]].parentId = Null
       /\ chain[Len(chain)] = p.user
       /\ Len(p.messages) = Len(chain) + 1
       /\ p.messages[1] = [role |-> "system", content |-> SystemPrompt]
       /\ \A i \in 1..Len(chain) :
            p.messages[i + 1] = [role |-> nodes[chain[i]].role,
                                 content |-> nodes[chain[i]].content]
       /\ p.messages[Len(p.messages)] =
            [role |-> "user", content |-> nodes[p.user].content]

\* a request at the provider whose user node has two ancestors and a sibling
C4_Witness ==
  \E p \in pending :
    /\ Len(p.messages) >= 4
    /\ \E sib \in DOMAIN nodes :
         /\ sib # p.user
         /\ nodes[sib].parentId = nodes[p.user].parentId
         /\ nodes[sib].content # nodes[p.user].content

\* C5: after a delete on an existing non-root node n, n and its descendants
\* are gone, the former parent no longer lists n, every other node of n's
\* tree is still there, and the root-id sequence is <<root of n>>.
C5_DeleteRemovesSubtree ==
  (/\ last.op = "delete"
   /\ last.arg \in DOMAIN last.pre.nodes
   /\ last.pre.nodes[last.arg].parentId # Null) =>
    LET pre == last.pre.nodes
        n == last.arg
        r == TopOf(pre, n)
    IN /\ last.status = 200
       /\ SubtreeOf(pre, n) \cap DOMAIN nodes = {}
       /\ pre[n].parentId \in DOMAIN nodes
       /\ n \notin Range(nodes[pre[n].parentId].children)
       /\ \A m \in DOMAIN pre :
            (TopOf(pre, m) = r /\ m \notin SubtreeOf(pre, n)) => m \in DOMAIN nodes
       /\ rootIds = <<r>>

\* a delete of a node with two descendants, in a forest with a second root
C5_Witness ==
  /\ last.op = "delete"
  /\ last.status = 200
  /\ Cardinality(SubtreeOf(last.pre.nodes, last.arg)) >= 3
  /\ Len(last.pre.rootIds) >= 2

\* C6: a delete whose target has no parentId, or names no node, is rejected
\* with an error and leaves the mapping, every children list and the root-id
\* sequence as they were.
C6_DeleteRejected ==
  (/\ last.op = "delete"
   /\ \/ last.arg \notin DOMAIN last.pre.nodes
      \/ last.pre.nodes[last.arg].parentId = Null) =>
    /\ last.status \in {400, 404}
    /\ conversationState = last.pre

\* a rejected delete of a root that has descendants
C6_Witness ==
  /\ last.op = "delete"
  /\ last.status = 400
  /\ last.arg \in DOMAIN nodes
  /\ nodes[last.arg].children # <<>>

\* the fallback exchange: the user node is there, and so is an assistant node
\* with the fallback text, child of the user node
FallbackReply ==
  /\ last.node \in DOMAIN nodes
  /\ last.reply \in DOMAIN nodes
  /\ nodes[last.reply].role = "assistant"
  /\ nodes[last.reply].content = FallbackText
  /\ nodes[last.reply].parentId = last.node
  /\ last.reply \in Range(nodes[last.node].children)

\* C7 as stated: whenever the completion call errors or returns no usable
\* text, the user node persists and an assistant node with the fallback text
\* is created as its child.
C7_FallbackOnAnyFailure ==
  (last.op = "post" /\ last.node # Null /\ last.outcome \in {Throws, NoText}) =>
    FallbackReply

\* C7 as amended: a completion without usable text yields the fallback reply
\* below the persisting user node; a completion call that throws is answered
\* 500 and no assistant node is created.
C7_FallbackOnNoText ==
  (last.op = "post" /\ last.node # Null) =>
    /\ last.outcome = NoText => (last.status = 200 /\ FallbackReply)
    /\ last.outcome = Throws =>
         /\ last.status = 500
         /\ last.reply = Null
         /\ last.node \in DOMAIN nodes
         /\ ~ \E a \in DOMAIN nodes : nodes[a].parentId = last.node

\* a post answered with the fallback text
C7_Witness ==
  /\ last.op = "post"
  /\ last.outcome = NoText
  /\ last.reply \in DOMAIN nodes
  /\ nodes[last.reply].content = FallbackText

\* C8: a post that fails after its user node was created leaves the forest
\* of before the request plus the user node, attached to its parent's
\* children list or appended to the root-id sequence; nothing is removed.
C8_NoRollback ==
  (last.op = "post" /\ last.status = 500) =>
    LET u == last.node
        b == last.before
    IN /\ u \notin DOMAIN b.nodes
       /\ DOMAIN nodes = DOMAIN b.nodes \cup {u}
       /\ nodes[u].role = "user"
       /\ nodes[u].children = <<>>
       /\ IF nodes[u].parentId = Null
          THEN /\ rootIds = Append(b.rootIds, u)
               /\ \A n \in DOMAIN b.nodes : nodes[n] = b.nodes[n]
          ELSE /\ rootIds = b.rootIds
               /\ nodes[u].parentId \in DOMAIN b.nodes
               /\ \A n \in DOMAIN b.nodes :
                    nodes[n] = IF n = nodes[u].parentId
                               THEN [b.nodes[n] EXCEPT !.children = Append(@, u)]
                               ELSE b.nodes[n]

\* a failed reply below an assistant node, in a forest of at least three nodes
C8_Witness ==
  /\ last.op = "post"
  /\ last.status = 500
  /\ nodes[last.node].parentId # Null
  /\ Cardinality(DOMAIN nodes) >= 3

\* the context path of leaf ends in leaf, starts at a parentless node, and
\* each of its nodes is the parent of the next
GoodContextPath(leaf) ==
  LET path == getNodePath(conversationState, leaf)
  IN /\ Len(path) >= 1
     /\ path[Len(path)] = nodes[leaf]
     /\ path[1].parentId = Null
     /\ \A i \in 1..(Len(path) - 1) :
          /\ path[i + 1].parentId = path[i].id
          /\ path[i] = nodes[path[i].id]

\* C9 as stated: in every state reachable by createNode, deleteSubtree and
\* pruneToRoot on existing ids, getContextPath of every existing node is a
\* chain from a root to that node.
C9_ContextPathFromRoot == \A leaf \in DOMAIN nodes : GoodContextPath(leaf)

\* C9 as amended: the same, in every state reachable by createNode,
\* deleteSubtree on existing ids and pruneToRoot on existing parentless ids.
C9_ContextPathRooted ==
  ~prunedNonRoot => \A leaf \in DOMAIN nodes : GoodContextPath(leaf)

\* after a deleteSubtree or a pruneToRoot of a root that removed nodes, a
\* path of three nodes
C9_Witness ==
  /\ ~prunedNonRoot
  /\ last.op \in {"deleteSubtree", "pruneToRoot"}
  /\ DOMAIN last.pre.nodes \ DOMAIN nodes # {}
  /\ \E leaf \in DOMAIN nodes : Len(getNodePath(conversationState, leaf)) >= 3

\* C10: deleteSubtree(n) removes exactly n and the nodes reachable from n
\* through children links; every other node keeps all its fields (the former
\* parent still lists n) and the root-id sequence is unchanged.
C10_DeleteSubtreeFrame ==
  last.op = "deleteSubtree" =>
    /\ DOMAIN nodes = DOMAIN last.pre.nodes \ Reachable(last.pre.nodes, last.arg)
    /\ \A m \in DOMAIN nodes : nodes[m] = last.pre.nodes[m]
    /\ rootIds = last.pre.rootIds

\* a deleteSubtree of a node with a child, whose parent stays and lists it
C10_Witness ==
  /\ last.op = "deleteSubtree"
  /\ last.arg \in DOMAIN last.pre.nodes
  /\ Cardinality(Reachable(last.pre.nodes, last.arg)) >= 2
  /\ \E par \in DOMAIN nodes : last.arg \in Range(nodes[par].children)

\* the number of positions of the sequence s that hold x
Count(s, x) == Cardinality({i \in 1..Len(s) : s[i] = x})

\* C11: a node created by createNode with an existing parent has the
\* parent's rootId; right after, its id is the last element of the parent's
\* children, occurs there once, and is in no other children list nor in the
\* root-id sequence.
C11_CreateUnderParent ==
  (last.op = "createNode" /\ last.arg \in DOMAIN last.pre.nodes) =>
    LET id == last.node
        par == last.arg
    IN /\ nodes[id].rootId = last.pre.nodes[par].rootId
       /\ nodes[id].parentId = par
       /\ nodes[par].children = Append(last.pre.nodes[par].children, id)
       /\ Count(nodes[par].children, id) = 1
       /\ \A m \in DOMAIN nodes \ {par} : Count(nodes[m].children, id) = 0
       /\ Count(rootIds, id) = 0

\* a node created below a parent that is not a root and has a child already
C11_Witness ==
  /\ last.op = "createNode"
  /\ last.arg \in DOMAIN last.pre.nodes
  /\ Len(nodes[last.arg].children) >= 2
  /\ nodes[last.node].rootId # last.arg

\* C12: a node created by createNode without a parent has its own id as
\* rootId; right after, its id occurs once in the root-id sequence and in no
\* children list.
C12_CreateRoot ==
  (last.op = "createNode" /\ last.arg = Null) =>
    LET id == last.node
    IN /\ nodes[id].rootId = id
       /\ nodes[id].parentId = Null
       /\ Count(rootIds, id) = 1
       /\ \A m \in DOMAIN nodes : Count(nodes[m].children, id) = 0

\* a second root created in a forest whose first root has a child
C12_Witness ==
  /\ last.op = "createNode"
  /\ last.arg = Null
  /\ Len(rootIds) >= 2
  /\ \E m \in DOMAIN nodes : nodes[m].children # <<>>

\* C13: pruneToRoot is idempotent: in the state a pruneToRoot(r) call left,
\* a second pruneToRoot(r) changes neither the mapping, nor a children list,
\* nor the root-id sequence.
C13_PruneIdempotent ==
  last.op = "pruneToRoot" =>
    pruneToRoot(conversationState, last.arg) = conversationState

\* a prune that dropped nodes and kept at least two
C13_Witness ==
  /\ last.op = "pruneToRoot"
  /\ DOMAIN last.pre.nodes \ DOMAIN nodes # {}
  /\ Cardinality(DOMAIN nodes) >= 2

\* C14: pruneToRoot(r) with an id r that names no node changes neither the
\* mapping, nor a children list, nor the root-id sequence.
C14_PruneMissingIsNoOp ==
  (last.op = "pruneToRoot" /\ last.arg \notin DOMAIN last.pre.nodes) =>
    conversationState = last.pre

\* a prune on the id of a deleted node, in a forest that still has nodes
C14_Witness ==
  /\ last.op = "pruneToRoot"
  /\ last.arg \notin DOMAIN last.pre.nodes
  /\ DOMAIN nodes # {}
  /\ rootIds # <<last.arg>>

\* the request body breaks a precondition of POST /messages
ViolatesPrecondition(content, parentId) ==
  \/ content = NoContent
  \/ content = NotAString
  \/ /\ parentId # Null
     /\ \/ parentId \notin DOMAIN nodes
        \/ nodes[parentId].role # "assistant"

\* C15: a post whose content is missing or not a string, or whose parentId
\* names no node or a node that is not an assistant node, is answered with
\* an error; it creates no node, leaves the forest as it was and does not
\* reach the provider.  (A POST step records "post" or "await" and the
\* parentId of the request in last.)
C15_RejectedBeforeMutation ==
  [][\A content \in ReqContents, parentId \in Ids \cup {Null} :
       (/\ last'.op \in {"post", "await"}
        /\ last'.arg = parentId
        /\ ViolatesPrecondition(content, parentId)
        /\ PostMessage(MaxRaceId, content, parentId)) =>
         /\ last'.op = "post"
         /\ last'.status \in {400, 404}
         /\ UNCHANGED <<conversationState, nextId, pending>>]_vars

\* a rejected reply to a user node while another request is at the provider
C15_Witness ==
  /\ last.op = "post"
  /\ last.status = 400
  /\ last.arg \in DOMAIN nodes
  /\ nodes[last.arg].role = "user"
  /\ pending # {}

RECURSIVE Above(_, _, _)
\* the ids met in k steps up the parentId links of n, n excluded
Above(ns, n, k) ==
  IF k = 0 \/ n \notin DOMAIN ns \/ ns[n].parentId = Null
  THEN {}
  ELSE {ns[n].parentId} \cup Above(ns, ns[n].parentId, k - 1)

Acyclic(ns) ==
  \A n \in DOMAIN ns : n \notin Above(ns, n, Cardinality(DOMAIN ns))

\* C16: with requests handled one at a time the store is a well-formed
\* forest: a node with a parentId is listed once by that existing parent and
\* nowhere else, a parentless node is listed once in the root-id sequence
\* and nowhere else, every listed id names a node, and no node is its own
\* ancestor.
C16_WellFormedForest ==
  /\ \A n \in DOMAIN nodes :
       IF nodes[n].parentId # Null
       THEN /\ nodes[n].parentId \in DOMAIN nodes
            /\ Count(nodes[nodes[n].parentId].children, n) = 1
            /\ \A m \in DOMAIN nodes \ {nodes[n].parentId} :
                 Count(nodes[m].children, n) = 0
            /\ Count(rootIds, n) = 0
       ELSE /\ Count(rootIds, n) = 1
            /\ \A m \in DOMAIN nodes : Count(nodes[m].children, n) = 0
  /\ NoDanglingChild(nodes)
  /\ Range(rootIds) \subseteq DOMAIN nodes
  /\ Acyclic(nodes)

\* after a delete, a forest of four nodes in which a node has two children
C16_Witness ==
  /\ last.op = "delete"
  /\ last.status = 200
  /\ Cardinality(DOMAIN nodes) >= 4
  /\ \E m \in DOMAIN nodes : Len(nodes[m].children) >= 2

\* C17: with requests handled one at a time the cached rootId of a node is
\* the id of its true root: its parent's rootId, or its own id when it has
\* no parent; getRootId(n) is the id of the first node of getContextPath(n),
\* and that node is in the root-id sequence.
C17_CachedRootIsTrueRoot ==
  \A n \in DOMAIN nodes :
    /\ nodes[n].rootId = IF nodes[n].parentId = Null THEN n
                         ELSE nodes[nodes[n].parentId].rootId
    /\ getRootId(conversationState, n) = getNodePath(conversationState, n)[1].id
    /\ getNodePath(conversationState, n)[1].parentId = Null
    /\ getRootId(conversationState, n) \in Range(rootIds)

\* a node three levels below its root, in a forest with a second root
C17_Witness ==
  /\ Len(rootIds) >= 2
  /\ \E n \in DOMAIN nodes : Len(getNodePath(conversationState, n)) >= 4

\* C18: under interleaved requests every node created with a parentId finds
\* its parent in the mapping at the moment of creation; the assistant reply
\* of a post is listed by its user node and no assistant node is left whose
\* parent is missing or does not list it.
C18_ParentPresentAtCreation ==
  /\ (last.op = "await" /\ last.arg # Null) => last.arg \in DOMAIN last.pre.nodes
  /\ Posted => last.node \in DOMAIN last.pre.nodes
  /\ \A a \in DOMAIN nodes :
       nodes[a].role = "assistant" =>
         /\ nodes[a].parentId \in DOMAIN nodes
         /\ a \in Range(nodes[nodes[a].parentId].children)

\* C19: while a post is suspended at the provider call, whatever requests
\* ran in the meantime, a read of the forest shows its user node and no
\* assistant node parented to it.
C19_SuspendedUserVisible ==
  \A p \in pending :
    LET read == serializeState(conversationState)
    IN /\ p.user \in DOMAIN read.nodes
       /\ ~ \E a \in DOMAIN read.nodes : read.nodes[a].parentId = p.user

\* C20 as stated: the user node of a post that failed after creating it is
\* in the mapping in every later state, whatever requests follow.
C20_OrphanStaysForever == orphaned \subseteq DOMAIN nodes

\* C20 as amended: the failing request removes nothing, and afterwards the
\* user node leaves the mapping only through a delete on it or on one of its
\* ancestors, or through the pruning that ends a successful post or a delete
\* in another tree.
C20_OrphanStaysUntilRemoved ==
  [][/\ \A u \in orphaned' \ orphaned : conversationState' = conversationState
     /\ \A u \in orphaned :
          (u \in DOMAIN nodes /\ u \notin DOMAIN nodes') =>
            \/ /\ last'.op = "delete"
               /\ last'.status = 200
               /\ last'.arg \in Range(ChainTo(nodes, u))
            \/ /\ last'.op = "delete"
               /\ last'.status = 200
               /\ TopOf(nodes, last'.arg) # TopOf(nodes, u)
            \/ /\ last'.op = "post"
               /\ last'.status = 200
               /\ last'.node \in DOMAIN nodes'
               /\ TopOf(nodes', last'.node) # TopOf(nodes, u)]_vars

\* the user node of a failed reply is still there after a later post in its
\* tree was answered
C20_Witness ==
  /\ Posted
  /\ \E u \in orphaned :
       /\ u \in DOMAIN nodes
       /\ nodes[u].parentId # Null
       /\ u # last.node
       /\ u \in DOMAIN last.before.nodes

\* between the mappings pre and post, every node that is in both keeps its
\* scalar fields, and its children list is the old one without some ids of
\* nodes that are absent from post, in the old order, with at most one id of
\* a node created in between, a child of that node, at the end
FrameKept(pre, post) ==
  \A n \in DOMAIN pre \cap DOMAIN post :
    LET old == pre[n].children
        new == post[n].children
        fresh == DOMAIN post \ DOMAIN pre
        kept == SelectSeq(new, LAMBDA c : c \notin fresh)
        added == SelectSeq(new, LAMBDA c : c \in fresh)
    IN /\ post[n].id = pre[n].id
       /\ post[n].role = pre[n].role
       /\ post[n].content = pre[n].content
       /\ post[n].parentId = pre[n].parentId
       /\ post[n].createdAt = pre[n].createdAt
       /\ post[n].rootId = pre[n].rootId
       /\ new = kept \o added
       /\ Len(added) <= 1
       /\ \A c \in Range(added) : post[c].parentId = n
       /\ kept = SelectSeq(old, LAMBDA c : c \in Range(kept))
       /\ \A c \in Range(old) \ Range(kept) : c \notin DOMAIN post

\* C21: across createNode, pruneToRoot, deleteSubtree and the post and delete
\* requests, a node present before and after keeps its id, role, content,
\* parentId, createdAt and rootId; its children list changes only by the id
\* of a newly created child appended at the end or by ids of deleted nodes
\* removed, and the remaining child ids keep their relative order.
C21_FramePreserved == FrameKept(last.pre.nodes, nodes)

\* a delete request after which the parent lists one child less and still
\* two others
C21_Witness ==
  /\ last.op = "delete"
  /\ last.status = 200
  /\ \E n \in DOMAIN nodes \cap DOMAIN last.pre.nodes :
       /\ Len(nodes[n].children) >= 2
       /\ Len(last.pre.nodes[n].children) > Len(nodes[n].children)

\* the caller's bookkeeping in DELETE /messages/:id: the parent, if it is in
\* the mapping, stops listing id
detach(st, parentId, id) ==
  IF parentId \in DOMAIN st.nodes
  THEN [st EXCEPT !.nodes[parentId].children =
          SelectSeq(@, LAMBDA childId : childId # id)]
  ELSE st

\* the forest st is well formed in the sense of C16
WellFormed(st) ==
  /\ \A n \in DOMAIN st.nodes :
       IF st.nodes[n].parentId # Null
       THEN /\ st.nodes[n].parentId \in DOMAIN st.nodes
            /\ Count(st.nodes[st.nodes[n].parentId].children, n) = 1
            /\ \A m \in DOMAIN st.nodes \ {st.nodes[n].parentId} :
                 Count(st.nodes[m].children, n) = 0
            /\ Count(st.rootIds, n) = 0
       ELSE /\ Count(st.rootIds, n) = 1
            /\ \A m \in DOMAIN st.nodes : Count(st.nodes[m].children, n) = 0
  /\ NoDanglingChild(st.nodes)
  /\ Range(st.rootIds) \subseteq DOMAIN st.nodes
  /\ Acyclic(st.nodes)

\* deleting n from st and pruning to r, with the detach done before the
\* deleteSubtree call, after it, or not at all
DetachBefore(st, n, r) ==
  pruneToRoot(deleteSubtree(detach(st, st.nodes[n].parentId, n), n), r)
DetachAfter(st, n, r) ==
  pruneToRoot(detach(deleteSubtree(st, n), st.nodes[n].parentId, n), r)
DetachNever(st, n, r) ==
  pruneToRoot(deleteSubtree(st, n), r)

\* C22: in a well-formed forest, for every node n with a parent and with
\* root r, detaching n from its parent's children before deleteSubtree(n),
\* after it, or not at all gives the same forest once pruneToRoot(r) has
\* run; the forest a delete request leaves is that forest.
C22_DetachOrderIrrelevant ==
  /\ WellFormed(conversationState) =>
       \A n \in DOMAIN nodes :
         nodes[n].parentId # Null =>
           LET r == TopOf(nodes, n)
           IN /\ DetachBefore(conversationState, n, r) = DetachNever(conversationState, n, r)
              /\ DetachAfter(conversationState, n, r) = DetachNever(conversationState, n, r)
  /\ (last.op = "delete" /\ last.status = 200 /\ WellFormed(last.pre)) =>
       conversationState =
         DetachNever(last.pre, last.arg, TopOf(last.pre.nodes, last.arg))

\* a delete request on a well-formed forest: the node had a child, its
\* parent keeps another child
C22_Witness ==
  /\ last.op = "delete"
  /\ last.status = 200
  /\ WellFormed(last.pre)
  /\ Cardinality(SubtreeOf(last.pre.nodes, last.arg)) >= 2
  /\ nodes[last.pre.nodes[last.arg].parentId].children # <<>>

\* C23: with requests handled one at a time, roles alternate along every
\* lineage: every root is a user node, every user node with a parent has an
\* assistant parent, every assistant node has a user parent, and every user
\* node has at most one child.
C23_RolesAlternate ==
  \A n \in DOMAIN nodes :
    /\ nodes[n].parentId = Null => nodes[n].role = "user"
    /\ (nodes[n].role = "user" /\ nodes[n].parentId # Null) =>
         /\ nodes[n].parentId \in DOMAIN nodes
         /\ nodes[nodes[n].parentId].role = "assistant"
    /\ nodes[n].role = "assistant" =>
         /\ nodes[n].parentId \in DOMAIN nodes
         /\ nodes[nodes[n].parentId].role = "user"
    /\ nodes[n].role = "user" => Len(nodes[n].children) <= 1

\* a lineage of four nodes and an assistant node with two user replies, one
\* of them left without a reply
C23_Witness ==
  /\ \E n \in DOMAIN nodes : Len(getNodePath(conversationState, n)) >= 4
  /\ \E a \in DOMAIN nodes :
       /\ nodes[a].role = "assistant"
       /\ Len(nodes[a].children) >= 2
       /\ \E u \in Range(nodes[a].children) : nodes[u].children = <<>>

====
